---- MODULE Spec2Model ----
(***************************************************************************)
(* Order fulfilment of the PromoWeb backend: inventory reservation, the    *)
(* order status life cycle and the payment handlers that drive it.         *)
(*                                                                         *)
(* The database is the state.  A request handler runs in its own ORM       *)
(* session (core/database.py, expire_on_commit = False): the rows it       *)
(* touches are read once, changed in memory, and the changed columns are   *)
(* written back as absolute values when the session commits.  Under Spec   *)
(* every handler is one atomic step (it reads and commits with nothing in  *)
(* between); under SpecConc the handlers that the concurrency claims name  *)
(* are split into the step that loads the rows and the step that commits.  *)
(*                                                                         *)
(* The model follows the handlers' logic as written.  Keyword and          *)
(* attribute names of ORM constructors and the clearing of the cart are    *)
(* below its granularity; a failure of the second transaction of           *)
(* checkout_cart is an input of that handler.                              *)
(***************************************************************************)
EXTENDS Integers, Sequences, FiniteSets, TLC

\* ------------------------------------------------------------------ bounds
MaxStock == 2            \* physical stock of a product at start: 0..MaxStock
MaxItemQty == 2          \* quantity of a cart line: 1..MaxItemQty
MaxOrders == 2           \* orders created in one run
MaxStatusChanges == 2    \* status-history rows written in one run
MaxPayments == 1         \* payments created in one run

Products == {"X", "Y"}

Max(a, b) == IF a >= b THEN a ELSE b

\* models/order.py order_status_enum
OrderStatuses ==
    {"pending", "partially_paid", "processing", "shipped", "in_transit",
     "delivered", "delivery_failed", "paid_full", "completed",
     "cancelled", "returned", "refunded"}

\* statuses an administrator sends in the runs that are explored
AdminStatuses ==
    {"partially_paid", "paid_full", "processing", "shipped", "in_transit",
     "delivered", "cancelled", "refunded"}

\* services/order.py OrderStatus: the names the order service uses
ServiceStatuses ==
    {"pending", "confirmed", "paid_partial", "paid_full", "processing",
     "shipped", "delivered", "cancelled", "refunded"}

\* ---------------------------------------------------------------- Inventory
available_quantity(i) == Max(0, i.quantity - i.reserved_quantity)

can_reserve(i, q) == available_quantity(i) >= q

reserve(i, q) ==
    IF can_reserve(i, q)
    THEN [ok |-> TRUE, inv |-> [i EXCEPT !.reserved_quantity = @ + q]]
    ELSE [ok |-> FALSE, inv |-> i]

release_reservation(i, q) ==
    [i EXCEPT !.reserved_quantity = Max(0, @ - q)]

reduce_stock(i, q) ==
    IF i.quantity >= q
    THEN [ok |-> TRUE, inv |-> [i EXCEPT !.quantity = @ - q]]
    ELSE [ok |-> FALSE, inv |-> i]

\* ------------------------------------------------- Order: inventory of items
\* inv is the session's view of the inventory table, items the order's lines
RECURSIVE ReleaseFrom(_, _, _)
ReleaseFrom(inv, items, k) ==
    IF k > Len(items) THEN inv
    ELSE ReleaseFrom(
           [inv EXCEPT ![items[k].product_id] =
                           release_reservation(@, items[k].quantity)],
           items, k + 1)

_release_inventory_reservations(inv, items) == ReleaseFrom(inv, items, 1)

RECURSIVE ReserveFrom(_, _, _)
ReserveFrom(inv, items, k) ==
    IF k > Len(items) THEN [ok |-> TRUE, inv |-> inv]
    ELSE LET r == reserve(inv[items[k].product_id], items[k].quantity) IN
         IF r.ok
         THEN ReserveFrom([inv EXCEPT ![items[k].product_id] = r.inv],
                          items, k + 1)
         ELSE [ok |-> FALSE,
               inv |-> _release_inventory_reservations(inv, items)]

reserve_inventory(inv, items) == ReserveFrom(inv, items, 1)

RECURSIVE FulfillFrom(_, _, _)
FulfillFrom(inv, items, k) ==
    IF k > Len(items) THEN [ok |-> TRUE, inv |-> inv]
    ELSE LET p == items[k].product_id
             released == release_reservation(inv[p], items[k].quantity)
             r == reduce_stock(released, items[k].quantity) IN
         IF r.ok
         THEN FulfillFrom([inv EXCEPT ![p] = r.inv], items, k + 1)
         ELSE [ok |-> FALSE, inv |-> [inv EXCEPT ![p] = released]]

fulfill_inventory(inv, items) == FulfillFrom(inv, items, 1)

\* the 'set' listener of Order.status: the inventory after the assignment
order_status_changed(inv, items, value, oldvalue) ==
    IF oldvalue = value THEN inv
    ELSE IF value = "partially_paid" /\ oldvalue = "pending"
         THEN reserve_inventory(inv, items).inv
    ELSE IF value = "shipped" /\ oldvalue \in {"partially_paid", "processing"}
         THEN fulfill_inventory(inv, items).inv
    ELSE IF value = "cancelled"
         THEN _release_inventory_reservations(inv, items)
    ELSE inv

\* Order.change_status: the order row with its new history row, and the
\* inventory the listener leaves
change_status(order, inv, new_status) ==
    [order |-> [order EXCEPT
                  !.status = new_status,
                  !.status_history =
                      Append(@, [previous_status |-> order.status,
                                 new_status |-> new_status])],
     inv |-> order_status_changed(inv, order.items, new_status, order.status)]

can_be_cancelled(order) ==
    order.status \in {"pending", "partially_paid", "processing"}

\* ------------------------------------------------------------ money, rows
\* amounts are hundredths of a franc (Numeric(12, 2) columns)
TotalAmounts == {100000}

DEFAULT_DEPOSIT_PERCENTAGE == 30

\* carts: lines of distinct products (idx_cart_items_cart_product is unique)
Line(p, q) == [product_id |-> p, quantity |-> q]

Carts ==
    {<<Line(p, q)>> : p \in Products, q \in 1..MaxItemQty}
    \cup {<<Line(p1, q1), Line(p2, q2)>> :
            <<p1, p2>> \in {pp \in Products \X Products : pp[1] # pp[2]},
            q1 \in 1..MaxItemQty, q2 \in 1..MaxItemQty}

\* what a Numeric(12, 2) column keeps of the amount num / den (in
\* hundredths): the database rounds to the column's scale, ties away from zero
Numeric(num, den) == (2 * num + den) \div (2 * den)

\* Order.calculate_deposit and the two assignments that follow it, as the
\* columns deposit_amount and remaining_amount store them
SplitAmounts(total, percentage) ==
    [deposit_amount |-> Numeric(total * percentage, 100),
     remaining_amount |-> Numeric(total * 100 - total * percentage, 100)]

\* f"{daily_count:04d}": the decimal digits of the count, filled with zeros
\* on the left up to four digits
RECURSIVE Decimal(_)
Decimal(n) == IF n < 10 THEN <<n>> ELSE Append(Decimal(n \div 10), n % 10)

RECURSIVE ZeroFill(_, _)
ZeroFill(digits, width) ==
    IF Len(digits) >= width THEN digits ELSE ZeroFill(<<0>> \o digits, width)

\* the order number: the prefix, the day and the daily sequence.  Every
\* request of a run is made on the same day, the case in which the requests
\* share the daily count; the date is left out of the number.
order_number(prefix, daily_count) ==
    [prefix |-> prefix, sequence |-> ZeroFill(Decimal(daily_count), 4)]

unique_order_number_undeclared(orders, number) == TRUE

\* Order.order_number is declared unique: the INSERT of a row whose number
\* another row has raises IntegrityError
unique_order_number(orders, number) ==
    \A i \in 1..Len(orders) : orders[i].order_number # number

\* the Order row checkout_cart builds (lines 236-298)
NewOrder(number, total) ==
    [order_number |-> number,
     status |-> "pending",
     items |-> <<>>,
     total_amount |-> total,
     deposit_amount |->
         SplitAmounts(total, DEFAULT_DEPOSIT_PERCENTAGE).deposit_amount,
     remaining_amount |->
         SplitAmounts(total, DEFAULT_DEPOSIT_PERCENTAGE).remaining_amount,
     status_history |-> <<>>]

\* the Payment row of create_initial_payment (status defaults to initiated)
NewPayment(order_id, gateway, amount, status) ==
    [order_id |-> order_id, gateway |-> gateway, amount |-> amount,
     status |-> status, retry_count |-> 0,
     gateway_payment_id |-> FALSE,    \* the provider's id is on the row
     customer_phone |-> FALSE,        \* a phone number is on the row
     gateway_response |-> "none"]     \* the last payload stored on the row

Gateways == {"stripe", "orange_money", "mtn_mobile_money", "cash_on_delivery"}

MobileMoney == {"orange_money", "mtn_mobile_money"}

\* a handler maps the rows its session sees (db) to the rows it commits and
\* to its response
Response(db, code) == [db |-> db, code |-> code, sent |-> FALSE]

\* the same response of a handler that has sent a request to the provider
Called(r) == [r EXCEPT !.sent = TRUE]

\* ------------------------------------------------------------ checkout_cart
RECURSIVE AllCanReserve(_, _, _)
AllCanReserve(inv, cart, k) ==
    IF k > Len(cart) THEN TRUE
    ELSE /\ can_reserve(inv[cart[k].product_id], cart[k].quantity)
         /\ AllCanReserve(inv, cart, k + 1)

\* lines 316-318: reserve() is called for every line, its result is not read
RECURSIVE ReserveLines(_, _, _)
ReserveLines(inv, cart, k) ==
    IF k > Len(cart) THEN inv
    ELSE ReserveLines(
           [inv EXCEPT ![cart[k].product_id] =
                           reserve(@, cart[k].quantity).inv],
           cart, k + 1)

\* lines 226-233: the orders of today are counted
checkout_order_number(db) == order_number("PW", Len(db.orders) + 1)

\* the rows after the first commit (line 301): the order without its items
checkout_first_commit(db, total) ==
    [db EXCEPT !.orders = Append(@, NewOrder(checkout_order_number(db), total))]

\* the rows after the second commit (line 326), and the background task
\* create_initial_payment when bg says that it stores its row
checkout_second_commit(db, cart, gateway, bg) ==
    LET o == Len(db.orders) IN
    [db EXCEPT
       !.orders[o].items = cart,
       !.inventory = ReserveLines(db.inventory, cart, 1),
       !.payments =
           IF bg /\ db.orders[o].deposit_amount > 0
           THEN Append(@, NewPayment(o, gateway, db.orders[o].deposit_amount,
                                     "initiated"))
           ELSE @]

\* exc: the second transaction raises and is rolled back (lines 365-371)
checkout_cart(db, cart, total, gateway, exc, bg) ==
    IF ~AllCanReserve(db.inventory, cart, 1)
    THEN Response(db, "InsufficientStock")
    ELSE IF ~unique_order_number(db.orders, checkout_order_number(db))
    THEN Response(db, "CheckoutFailed")
    ELSE IF exc
    THEN Response(checkout_first_commit(db, total), "CheckoutFailed")
    ELSE Response(checkout_second_commit(checkout_first_commit(db, total),
                                         cart, gateway, bg), "ok")

\* ------------------------------------------------- notification_service
\* what a call of notification_service.send_* does: the message is sent; the
\* mail or SMS provider fails, which send_email and send_sms catch and
\* return as a result; or the call raises (the context of the message is
\* built outside the try blocks, from settings.FRONTEND_URL among others)
NotifyOutcomes == {"sent", "failed", "raised"}

\* ------------------------------------------- OrderService (services/order.py)
RECURSIVE ValidFrom(_, _, _)
ValidFrom(inv, cart, k) ==
    IF k > Len(cart) THEN TRUE
    ELSE /\ ~(cart[k].quantity > available_quantity(inv[cart[k].product_id]))
         /\ ValidFrom(inv, cart, k + 1)

_validate_cart_items(inv, cart) == ValidFrom(inv, cart, 1)

RECURSIVE ServiceReserveFrom(_, _, _)
ServiceReserveFrom(inv, cart, k) ==
    IF k > Len(cart) THEN inv
    ELSE ServiceReserveFrom(
           [inv EXCEPT ![cart[k].product_id].reserved_quantity =
                           @ + cart[k].quantity],
           cart, k + 1)

_reserve_inventory(inv, cart) == ServiceReserveFrom(inv, cart, 1)

_generate_order_number(db) == order_number("PMW", Len(db.orders) + 1)

\* the order is committed (line 211) and the confirmation is sent after it,
\* inside the try block whose handler answers success = False
create_order_from_cart(db, cart, total, notify) ==
    IF ~_validate_cart_items(db.inventory, cart)
    THEN Response(db, "InsufficientStock")
    ELSE IF ~unique_order_number(db.orders, _generate_order_number(db))
    THEN Response(db, "CreateFailed")
    ELSE Response(
           [db EXCEPT
              !.orders = Append(@,
                  [NewOrder(_generate_order_number(db), total) EXCEPT
                     !.deposit_amount = 0,
                     !.items = cart,
                     !.status_history =
                         <<[previous_status |-> "none",
                            new_status |-> "pending"]>>]),
              !.inventory = _reserve_inventory(db.inventory, cart)],
           IF notify = "raised" THEN "CreateFailed" ELSE "ok")

_is_valid_status_transition(current_status, new_status) ==
    LET allowed_transitions ==
          [s \in ServiceStatuses |->
             CASE s = "pending" -> {"confirmed", "cancelled"}
               [] s = "confirmed" -> {"paid_partial", "paid_full", "cancelled"}
               [] s = "paid_partial" -> {"paid_full", "processing", "cancelled"}
               [] s = "paid_full" -> {"processing", "cancelled"}
               [] s = "processing" -> {"shipped", "cancelled"}
               [] s = "shipped" -> {"delivered"}
               [] s = "delivered" -> {"refunded"}
               [] OTHER -> {}]
    IN /\ current_status \in ServiceStatuses
       /\ new_status \in allowed_transitions[current_status]

\* the service assigns order.status (the listener runs), releases the
\* reservation once more on cancelled, and adds its own history row; a
\* status that is no member of order_status_enum is refused by the database;
\* after the commit a shipped order is notified to its user, inside the try
\* block whose handler answers False
service_update_order_status(db, o, new_status, notify) ==
    LET order == db.orders[o]
        listened == order_status_changed(db.inventory, order.items,
                                         new_status, order.status)
        inv == IF new_status = "cancelled"
               THEN _release_inventory_reservations(listened, order.items)
               ELSE listened
    IN
    IF ~_is_valid_status_transition(order.status, new_status)
    THEN Response(db, "InvalidTransition")
    ELSE IF new_status \notin OrderStatuses
    THEN Response(db, "InvalidTransition")
    ELSE Response(
           [db EXCEPT
              !.orders[o].status = new_status,
              !.orders[o].status_history =
                  Append(@, [previous_status |-> "none",
                             new_status |-> new_status]),
              !.inventory = inv],
           IF new_status = "shipped" /\ notify = "raised"
           THEN "UpdateFailed" ELSE "ok")

\* ------------------------------------------------- endpoints/orders.py, admin
cancel_order(db, o) ==
    IF ~can_be_cancelled(db.orders[o])
    THEN Response(db, "NotCancellable")
    ELSE LET c == change_status(db.orders[o], db.inventory, "cancelled") IN
         Response(
           [db EXCEPT
              !.orders[o] = c.order,
              !.inventory =
                  _release_inventory_reservations(c.inv, c.order.items)],
           "ok")

update_order_status(db, o, new_status) ==
    LET c == change_status(db.orders[o], db.inventory, new_status) IN
    Response([db EXCEPT !.orders[o] = c.order, !.inventory = c.inv], "ok")

\* admin.py bulk_update_order_status: change_status on every order found
RECURSIVE BulkFrom(_, _, _, _)
BulkFrom(db, ids, new_status, k) ==
    IF k > Len(ids) THEN db
    ELSE BulkFrom(update_order_status(db, ids[k], new_status).db,
                  ids, new_status, k + 1)

bulk_update_order_status(db, ids, new_status) ==
    Response(BulkFrom(db, ids, new_status, 1), "ok")

\* ------------------------------------------------- payments (endpoints, service)
\* PaymentService.calculate_partial_payment, in hundredths: 30% of the
\* amount, cut down to whole hundreds of francs by int()
calculate_partial_payment(order_amount) ==
    LET down_payment == ((order_amount * 30) \div 1000000) * 10000 IN
    [down_payment |-> down_payment,
     remaining_balance |-> order_amount - down_payment]

\* PaymentService.process_payment: the processors of stripe and of mobile
\* money call the provider first and store the payment row, with the
\* provider's id, when it has answered (gw_ok); cash on delivery calls nobody
process_payment(db, o, amount, gateway, gw_ok) ==
    LET payment ==
          [NewPayment(o, gateway, amount,
                      IF gateway = "stripe" THEN "initiated" ELSE "pending")
             EXCEPT !.gateway_payment_id = (gateway # "cash_on_delivery")]
        stored == Response([db EXCEPT !.payments = Append(@, payment)], "ok")
    IN IF gateway = "cash_on_delivery"
       THEN (IF amount <= 0 THEN Response(db, "GatewayError") ELSE stored)
       ELSE IF ~gw_ok \/ amount <= 0
       THEN Called(Response(db, "GatewayError"))
       ELSE Called(stored)

\* POST /payments/create
create_payment(db, o, gateway, is_partial, gw_ok) ==
    LET order == db.orders[o]
        payment_amount ==
            IF is_partial
            THEN calculate_partial_payment(order.total_amount).down_payment
            ELSE order.total_amount
    IN IF order.status \in {"cancelled", "refunded"}
       THEN Response(db, "OrderNotPayable")
       ELSE process_payment(db, o, payment_amount, gateway, gw_ok)

RECURSIVE PaidFrom(_, _, _)
PaidFrom(payments, o, k) ==
    IF k > Len(payments) THEN 0
    ELSE (IF payments[k].order_id = o /\ payments[k].status = "success"
          THEN payments[k].amount ELSE 0) + PaidFrom(payments, o, k + 1)

get_total_paid(db, o) == PaidFrom(db.payments, o, 1)

get_remaining_balance(db, o) ==
    db.orders[o].total_amount - get_total_paid(db, o)

\* process_payment_gateway: the processors of POST /payments/ call no
\* provider; the mobile-money ones refuse a row without a phone number, the
\* cash-on-delivery one makes the row pending
process_payment_gateway(db, pid) ==
    LET payment == db.payments[pid] IN
    IF payment.gateway \in {"orange_money", "mtn_mobile_money"}
    THEN (IF ~payment.customer_phone
          THEN Response(db, "MissingPhoneNumber")
          ELSE Response(db, "ok"))
    ELSE IF payment.gateway = "cash_on_delivery"
    THEN Response([db EXCEPT
                     !.payments[pid].status = "pending",
                     !.payments[pid].gateway_response = "cash_on_delivery"],
                  "ok")
    ELSE Response(db, "ok")

\* POST /payments/ : the row is committed (line 564) before the gateway
\* processor runs, so it is kept whatever the processor answers
create_payment_amount(db, o, gateway, amount, phone) ==
    LET order == db.orders[o]
        payment == [NewPayment(o, gateway, amount, "initiated")
                      EXCEPT !.customer_phone = phone]
        committed == [db EXCEPT !.payments = Append(@, payment)]
    IN IF order.status \in {"cancelled", "refunded", "completed"}
       THEN Response(db, "OrderNotPayable")
       ELSE IF amount > get_remaining_balance(db, o)
       THEN Response(db, "AmountExceedsBalance")
       ELSE IF amount <= 0
       THEN Response(db, "CreateFailed")
       ELSE process_payment_gateway(committed, Len(committed.payments))

update_order_payment_status(db, o) ==
    LET order == db.orders[o]
        total_paid == get_total_paid(db, o)
        to(s) == LET c == change_status(order, db.inventory, s) IN
                 [db EXCEPT !.orders[o] = c.order, !.inventory = c.inv]
    IN IF total_paid >= order.deposit_amount /\ order.status = "pending"
       THEN to("partially_paid")
       ELSE IF total_paid >= order.total_amount
       THEN to("paid_full")
       ELSE db

confirm_payment_gateway(payment) ==
    payment.gateway \in {"orange_money", "mtn_mobile_money"}

\* POST /payments/{payment_id}/confirm
confirm_payment(db, pid) ==
    LET payment == db.payments[pid] IN
    IF payment.status # "pending" THEN Response(db, "NotPending")
    ELSE IF confirm_payment_gateway(payment)
    THEN Response(
           update_order_payment_status(
               [db EXCEPT !.payments[pid].status = "success"],
               payment.order_id),
           "ok")
    ELSE Response([db EXCEPT !.payments[pid].status = "failed"],
                  "ConfirmationFailed")

\* the provider webhooks (stripe, orange-money, mtn-money): the payment the
\* notification names takes the notified status; the order is not read
gateway_webhook(db, pid, success) ==
    LET new_status == IF success THEN "success" ELSE "failed" IN
    Response([db EXCEPT !.payments[pid].status = new_status,
                        !.payments[pid].gateway_response = new_status],
             "ok")

\* StripePaymentProcessor.handle_webhook: _handle_payment_success sends the
\* notification inside the session, before the commit; when the call raises,
\* the session is rolled back and the webhook is answered with an error
handle_webhook(db, pid, success, notify) ==
    IF success /\ notify = "raised"
    THEN Response(db, "error")
    ELSE gateway_webhook(db, pid, success)

can_be_refunded(payment) ==
    payment.status = "success" /\ payment.gateway # "cash_on_delivery"

\* POST /payments/admin/payments/{payment_id}/refund, for a refund of the
\* whole amount of the payment
create_refund(db, pid) ==
    IF ~can_be_refunded(db.payments[pid])
    THEN Response(db, "NotRefundable")
    ELSE Response([db EXCEPT !.payments[pid].status = "refunded"], "ok")

\* ------------------------------------------------------------------- state
VARIABLES
    inventory,   \* product -> [quantity, reserved_quantity]
    orders,      \* sequence of order rows, the index is the order id
    payments,    \* sequence of payment rows, the index is the payment id
    result,      \* the response of the last request
    sess,        \* the open ORM sessions of requests that have not committed
    start,       \* the tables at the start of the run
    payment_webhooks   \* the rows of the table payment_webhooks

vars == <<inventory, orders, payments, result, sess, start, payment_webhooks>>

DB == [inventory |-> inventory, orders |-> orders, payments |-> payments]

OrderIds == 1..Len(orders)

PaymentIds == 1..Len(payments)

\* what a payment request carries: the gateway, whether a phone number comes
\* with it, the amount and the payment it names (0 where it names none)
NoRequest ==
    [gateway |-> "none", phone |-> FALSE, amount |-> 0, payment |-> 0,
     notify |-> "none"]

ForPayment(pid) == [NoRequest EXCEPT !.payment = pid]

Answer(op, o, arg, code, sent, req) ==
    [op |-> op, order |-> o, arg |-> arg, code |-> code, sent |-> sent,
     req |-> req]

NoResult == Answer("none", 0, "none", "none", FALSE, NoRequest)

RECURSIVE SumHistory(_, _)
SumHistory(os, k) ==
    IF k > Len(os) THEN 0 ELSE Len(os[k].status_history) + SumHistory(os, k + 1)

StatusChanges == SumHistory(orders, 1)

Sessions == {"s1", "s2"}

IdleSession ==
    [pc |-> "idle", op |-> "none", order |-> 0, arg |-> "none",
     code |-> "none", cart |-> <<>>, exc |-> FALSE,
     loaded |-> [inventory |-> <<>>, orders |-> <<>>, payments |-> <<>>],
     local |-> [inventory |-> <<>>, orders |-> <<>>, payments |-> <<>>]]

\* a handler that runs alone: it reads the tables and commits in one step
ServeRequest(r, op, o, arg, req) ==
    /\ inventory' = r.db.inventory
    /\ orders' = r.db.orders
    /\ payments' = r.db.payments
    /\ result' = Answer(op, o, arg, r.code, r.sent, req)
    /\ UNCHANGED <<sess, start, payment_webhooks>>

Serve(r, op, o, arg) == ServeRequest(r, op, o, arg, NoRequest)

Init ==
    /\ inventory \in [Products ->
                        {[quantity |-> n, reserved_quantity |-> 0] :
                            n \in 0..MaxStock}]
    /\ orders = <<>>
    /\ payments = <<>>
    /\ result = NoResult
    /\ sess = [s \in Sessions |-> IdleSession]
    /\ payment_webhooks = <<>>
    /\ start = DB

CheckoutCart ==
    /\ Len(orders) < MaxOrders
    /\ \E cart \in Carts, total \in TotalAmounts, exc \in BOOLEAN,
          bg \in BOOLEAN :
         /\ bg => Len(payments) < MaxPayments
         /\ Serve(checkout_cart(DB, cart, total, "orange_money", exc, bg),
                  "checkout_cart", Len(orders) + 1, "none")

CreateOrderFromCart ==
    /\ Len(orders) < MaxOrders
    /\ StatusChanges < MaxStatusChanges
    /\ \E cart \in Carts, total \in TotalAmounts, notify \in NotifyOutcomes :
         ServeRequest(create_order_from_cart(DB, cart, total, notify),
                      "create_order_from_cart", Len(orders) + 1, "none",
                      [NoRequest EXCEPT !.notify = notify])

CancelOrder ==
    \E o \in OrderIds :
      /\ StatusChanges < MaxStatusChanges
      /\ Serve(cancel_order(DB, o), "cancel_order", o, "cancelled")

UpdateOrderStatus ==
    \E o \in OrderIds, s \in AdminStatuses :
      /\ StatusChanges < MaxStatusChanges
      /\ Serve(update_order_status(DB, o, s), "update_order_status", o, s)

BulkUpdateOrderStatus ==
    \E s \in AdminStatuses :
      /\ Len(orders) >= 2
      /\ StatusChanges + 2 <= MaxStatusChanges
      /\ Serve(bulk_update_order_status(DB, <<1, 2>>, s),
               "bulk_update_order_status", 0, s)

ServiceUpdateOrderStatus ==
    \E o \in OrderIds, s \in ServiceStatuses, notify \in NotifyOutcomes :
      /\ StatusChanges < MaxStatusChanges
      /\ ServeRequest(service_update_order_status(DB, o, s, notify),
                      "service_update_order_status", o, s,
                      [NoRequest EXCEPT !.notify = notify])

\* the runs of Spec pay by mobile money; every gateway is drawn in SpecPay
CreatePayment ==
    \E o \in OrderIds, is_partial \in BOOLEAN, gw_ok \in BOOLEAN :
      /\ Len(payments) < MaxPayments
      /\ ServeRequest(create_payment(DB, o, "orange_money", is_partial, gw_ok),
                      "create_payment", o, "none",
                      [NoRequest EXCEPT !.gateway = "orange_money",
                                        !.phone = TRUE])

ConfirmPayment ==
    \E pid \in PaymentIds :
      /\ StatusChanges < MaxStatusChanges
      /\ Serve(confirm_payment(DB, pid), "confirm_payment",
               payments[pid].order_id, "none")

GatewayWebhook ==
    \E pid \in PaymentIds, success \in BOOLEAN :
      /\ payments[pid].gateway_payment_id
      /\ payments[pid].status \in {"initiated", "pending"}
      /\ Serve(gateway_webhook(DB, pid, success), "gateway_webhook",
               payments[pid].order_id, "none")

Next ==
    \/ CheckoutCart
    \/ CancelOrder
    \/ UpdateOrderStatus
    \/ BulkUpdateOrderStatus
    \/ CreatePayment
    \/ ConfirmPayment
    \/ GatewayWebhook

Spec == Init /\ [][Next]_vars

\* --------------------------------------------------- concurrent requests
\* Two requests run in sessions of their own.  A session reads its rows when
\* the handler starts (the handler's queries and lazy loads), the handler
\* changes them in memory, and the commit writes the changed columns with
\* the values the session holds; no handler locks a row.

\* UPDATE of the columns whose value the session changed
FlushInventory(table, loaded, local) ==
    [p \in Products |->
       [quantity |->
            IF local[p].quantity # loaded[p].quantity
            THEN local[p].quantity ELSE table[p].quantity,
        reserved_quantity |->
            IF local[p].reserved_quantity # loaded[p].reserved_quantity
            THEN local[p].reserved_quantity
            ELSE table[p].reserved_quantity]]

\* UPDATE of a changed status, INSERT of the session's new history rows
FlushOrders(table, loaded, local) ==
    [i \in 1..Len(table) |->
       IF i > Len(loaded) THEN table[i]
       ELSE [table[i] EXCEPT
               !.status = IF local[i].status # loaded[i].status
                          THEN local[i].status ELSE @,
               !.status_history =
                   @ \o SubSeq(local[i].status_history,
                               Len(loaded[i].status_history) + 1,
                               Len(local[i].status_history))]]

FlushPayments(table, loaded, local) ==
    [i \in 1..Len(table) |->
       IF i > Len(loaded) THEN table[i]
       ELSE [table[i] EXCEPT
               !.status = IF local[i].status # loaded[i].status
                          THEN local[i].status ELSE @]]

\* inputs of the races that are explored
ConcCarts == {<<Line(p, q)>> : p \in Products, q \in 1..MaxItemQty}

ConcStatuses == {"partially_paid", "shipped", "cancelled"}

\* the states a race starts from: what the handlers leave after an optional
\* checkout, an optional payment of that order and an optional deposit
Fresh(stock) == [inventory |-> stock, orders |-> <<>>, payments |-> <<>>]

AfterCheckout(db) ==
    {db} \cup {checkout_cart(db, cart, total, "orange_money", FALSE, FALSE).db :
                 cart \in ConcCarts, total \in TotalAmounts}

AfterPayment(db) ==
    IF db.orders = <<>> THEN {db}
    ELSE {db} \cup {create_payment(db, 1, "orange_money", is_partial, TRUE).db :
                      is_partial \in BOOLEAN}

AfterDeposit(db) ==
    IF db.orders = <<>> THEN {db}
    ELSE {db, update_order_status(db, 1, "partially_paid").db}

RaceStarts ==
    UNION {UNION {AfterDeposit(d2) : d2 \in AfterPayment(d1)} :
             d1 \in UNION {AfterCheckout(Fresh(stock)) :
                     stock \in [Products ->
                                  {[quantity |-> n, reserved_quantity |-> 0] :
                                      n \in 0..MaxStock}]}}

InitConc ==
    /\ start \in RaceStarts
    /\ inventory = start.inventory
    /\ orders = start.orders
    /\ payments = start.payments
    /\ result = NoResult
    /\ sess = [s \in Sessions |-> IdleSession]
    /\ payment_webhooks = <<>>

Load(s, r, op, o, arg) ==
    /\ sess[s].pc = "idle"
    /\ sess' = [sess EXCEPT ![s] =
                  [IdleSession EXCEPT !.pc = "loaded", !.op = op,
                                      !.order = o, !.arg = arg,
                                      !.code = r.code, !.loaded = DB,
                                      !.local = r.db]]
    /\ UNCHANGED <<inventory, orders, payments, result, start, payment_webhooks>>

BeginCancel(s) ==
    \E o \in OrderIds : Load(s, cancel_order(DB, o), "cancel_order", o,
                             "cancelled")

BeginUpdateStatus(s) ==
    \E o \in OrderIds, st \in ConcStatuses :
      Load(s, update_order_status(DB, o, st), "update_order_status", o, st)

BeginConfirm(s) ==
    \E pid \in PaymentIds :
      Load(s, confirm_payment(DB, pid), "confirm_payment",
           payments[pid].order_id, "none")

\* the session commits and the response is sent
CommitSession(s) ==
    /\ sess[s].pc = "loaded"
    /\ sess[s].op # "checkout_cart"
    /\ inventory' = FlushInventory(inventory, sess[s].loaded.inventory,
                                   sess[s].local.inventory)
    /\ orders' = FlushOrders(orders, sess[s].loaded.orders,
                             sess[s].local.orders)
    /\ payments' = FlushPayments(payments, sess[s].loaded.payments,
                                 sess[s].local.payments)
    /\ result' = Answer(sess[s].op, sess[s].order, sess[s].arg,
                         sess[s].code, FALSE, NoRequest)
    /\ sess' = [sess EXCEPT ![s].pc = "done"]
    /\ UNCHANGED <<start, payment_webhooks>>

\* checkout_cart: lines 162-189 read the cart with its inventory rows and
\* validate; a refused cart is answered at once
BeginCheckout(s) ==
    \E cart \in ConcCarts, total \in TotalAmounts, exc \in BOOLEAN :
      LET r == checkout_cart(DB, cart, total, "orange_money", exc, FALSE) IN
      /\ sess[s].pc = "idle"
      /\ sess' = [sess EXCEPT ![s] =
                    [IdleSession EXCEPT
                       !.pc = IF r.code = "InsufficientStock"
                              THEN "done" ELSE "loaded",
                       !.op = "checkout_cart", !.code = r.code,
                       !.cart = cart, !.exc = exc, !.loaded = DB,
                       !.local = r.db]]
      /\ result' = IF r.code = "InsufficientStock"
                   THEN Answer("checkout_cart", 0, "none", r.code, FALSE,
                               NoRequest)
                   ELSE result
      /\ UNCHANGED <<inventory, orders, payments, start, payment_webhooks>>

\* line 301: the order row is inserted, with the number that the session
\* made from the count it read; when another order has taken the number the
\* INSERT raises and the request is answered with "Checkout failed"
CommitCheckoutOrder(s) ==
    LET order == sess[s].local.orders[Len(sess[s].local.orders)] IN
    /\ sess[s].pc = "loaded"
    /\ sess[s].op = "checkout_cart"
    /\ IF unique_order_number(orders, order.order_number)
       THEN /\ orders' = Append(orders, [order EXCEPT !.items = <<>>])
            /\ sess' = [sess EXCEPT ![s].pc = "first_commit",
                                    ![s].order = Len(orders) + 1]
            /\ UNCHANGED result
       ELSE /\ sess' = [sess EXCEPT ![s].pc = "done",
                                    ![s].code = "CheckoutFailed"]
            /\ result' = Answer("checkout_cart", 0, "none", "CheckoutFailed",
                                FALSE, NoRequest)
            /\ UNCHANGED orders
    /\ UNCHANGED <<inventory, payments, start, payment_webhooks>>

\* line 326: the items and the reservations are written, or the second
\* transaction raises and is rolled back
CommitCheckoutItems(s) ==
    /\ sess[s].pc = "first_commit"
    /\ IF sess[s].exc
       THEN UNCHANGED <<inventory, orders>>
       ELSE /\ orders' = [orders EXCEPT ![sess[s].order].items = sess[s].cart]
            /\ inventory' = FlushInventory(inventory,
                                           sess[s].loaded.inventory,
                                           sess[s].local.inventory)
    /\ result' = Answer("checkout_cart", sess[s].order, "none",
                         sess[s].code, FALSE, NoRequest)
    /\ sess' = [sess EXCEPT ![s].pc = "done"]
    /\ UNCHANGED <<payments, start, payment_webhooks>>

NextConc ==
    \E s \in Sessions :
      \/ BeginCheckout(s)
      \/ CommitCheckoutOrder(s)
      \/ CommitCheckoutItems(s)
      \/ BeginCancel(s)
      \/ BeginUpdateStatus(s)
      \/ BeginConfirm(s)
      \/ CommitSession(s)

SpecConc == InitConc /\ [][NextConc]_vars

\* ------------------------------------------------------- payment requests
\* One order that has been checked out, and the payment requests made for
\* it: both creation endpoints with every gateway, the confirmation, the
\* provider webhooks for every payment that carries a provider id, the
\* refund, and the admin status change that closes the order.
MaxPayRows == 2

PayAmounts == {30000, 70000, 100000}

PayAdminStatuses == {"completed", "cancelled"}

PayStarts ==
    {checkout_cart(
         Fresh([p \in Products |->
                  [quantity |-> MaxStock, reserved_quantity |-> 0]]),
         <<Line("X", 1)>>, total, "orange_money", FALSE, FALSE).db :
       total \in TotalAmounts}

InitPay ==
    /\ start \in PayStarts
    /\ inventory = start.inventory
    /\ orders = start.orders
    /\ payments = start.payments
    /\ result = NoResult
    /\ sess = [s \in Sessions |-> IdleSession]
    /\ payment_webhooks = <<>>

\* POST /payments/create; phone is the phone number of the user's account
PayCreatePayment ==
    \E o \in OrderIds, gateway \in Gateways, is_partial \in BOOLEAN,
       gw_ok \in BOOLEAN, phone \in BOOLEAN :
      /\ Len(payments) < MaxPayRows
      /\ ServeRequest(create_payment(DB, o, gateway, is_partial, gw_ok),
                      "create_payment", o, "none",
                      [NoRequest EXCEPT !.gateway = gateway, !.phone = phone])

\* POST /payments/
PayCreatePaymentAmount ==
    \E o \in OrderIds, gateway \in Gateways, amount \in PayAmounts,
       phone \in BOOLEAN :
      /\ Len(payments) < MaxPayRows
      /\ ServeRequest(create_payment_amount(DB, o, gateway, amount, phone),
                      "create_payment_amount", o, "none",
                      [NoRequest EXCEPT !.gateway = gateway, !.phone = phone,
                                        !.amount = amount])

\* a provider notification for a payment it knows, in whatever status the
\* payment is by now
WebhookDelivery ==
    \E pid \in PaymentIds, success \in BOOLEAN, notify \in NotifyOutcomes :
      /\ payments[pid].gateway_payment_id
      /\ payments[pid].gateway # "stripe" => notify = "sent"
      /\ ServeRequest(IF payments[pid].gateway = "stripe"
                      THEN handle_webhook(DB, pid, success, notify)
                      ELSE gateway_webhook(DB, pid, success),
                      "gateway_webhook", payments[pid].order_id,
                      IF success THEN "success" ELSE "failed",
                      [ForPayment(pid) EXCEPT !.notify = notify])

PayConfirmPayment ==
    \E pid \in PaymentIds :
      /\ StatusChanges < MaxStatusChanges
      /\ ServeRequest(confirm_payment(DB, pid), "confirm_payment",
                      payments[pid].order_id, "none", ForPayment(pid))

CreateRefund ==
    \E pid \in PaymentIds :
      ServeRequest(create_refund(DB, pid), "create_refund",
                   payments[pid].order_id, "none", ForPayment(pid))

PayUpdateOrderStatus ==
    \E o \in OrderIds, s \in PayAdminStatuses :
      /\ StatusChanges < MaxStatusChanges
      /\ Serve(update_order_status(DB, o, s), "update_order_status", o, s)

NextPay ==
    \/ PayCreatePayment
    \/ PayCreatePaymentAmount
    \/ WebhookDelivery
    \/ PayConfirmPayment
    \/ CreateRefund
    \/ PayUpdateOrderStatus

SpecPay == InitPay /\ [][NextPay]_vars

\* ------------------------------------------------------- payment retries
\* A customer whose payments all fail and who pays again after each failure:
\* a payment is created only when every earlier payment of the order has
\* failed, so every payment after the first is a retry.
MaxRetryPayments == 5

\* Payment.can_retry(max_retries = 3), which no request handler calls
max_retries == 3

can_retry(payment) ==
    payment.retry_count < max_retries /\ payment.status \in {"failed", "expired"}

\* one gateway that is notified by webhook and the one that is not
RetryGateways == {"orange_money", "cash_on_delivery"}

AllFailed ==
    \A pid \in PaymentIds : payments[pid].status \in {"failed", "expired"}

RetryCreatePayment ==
    \E o \in OrderIds, gateway \in RetryGateways, is_partial \in BOOLEAN,
       gw_ok \in BOOLEAN :
      /\ AllFailed
      /\ Len(payments) < MaxRetryPayments
      /\ ServeRequest(create_payment(DB, o, gateway, is_partial, gw_ok),
                      "create_payment", o, "none",
                      [NoRequest EXCEPT !.gateway = gateway, !.phone = TRUE])

RetryCreatePaymentAmount ==
    \E o \in OrderIds, gateway \in RetryGateways, amount \in PayAmounts :
      /\ AllFailed
      /\ Len(payments) < MaxRetryPayments
      /\ ServeRequest(create_payment_amount(DB, o, gateway, amount, TRUE),
                      "create_payment_amount", o, "none",
                      [NoRequest EXCEPT !.gateway = gateway, !.phone = TRUE,
                                        !.amount = amount])

\* the provider reports the failure of a payment that is under way
RetryWebhookFailed ==
    \E pid \in PaymentIds :
      /\ payments[pid].gateway_payment_id
      /\ payments[pid].status \in {"initiated", "pending"}
      /\ ServeRequest(gateway_webhook(DB, pid, FALSE), "gateway_webhook",
                      payments[pid].order_id, "failed", ForPayment(pid))

\* the confirmation of a payment that the gateway does not confirm
RetryConfirmFailed ==
    \E pid \in PaymentIds :
      /\ ~confirm_payment_gateway(payments[pid])
      /\ payments[pid].status = "pending"
      /\ ServeRequest(confirm_payment(DB, pid), "confirm_payment",
                      payments[pid].order_id, "none", ForPayment(pid))

NextRetry ==
    \/ RetryCreatePayment
    \/ RetryCreatePaymentAmount
    \/ RetryWebhookFailed
    \/ RetryConfirmFailed

SpecRetry == InitPay /\ [][NextRetry]_vars

\* ------------------------------------------------------ the deposit split
\* Orders of many totals: checkout_cart stores the split of a new order,
\* Order.update_amounts stores it again for a total that has changed, and
\* calculate_partial_payment computes the down payment of an order's total.
MaxCents == 10

SplitTotals ==
    {base + c : base \in {100, 33300, 100000}, c \in 0..MaxCents}

\* Order.update_amounts; total is what calculate_totals returns
update_amounts(order, total) ==
    [order EXCEPT
       !.total_amount = total,
       !.deposit_amount =
           SplitAmounts(total, DEFAULT_DEPOSIT_PERCENTAGE).deposit_amount,
       !.remaining_amount =
           SplitAmounts(total, DEFAULT_DEPOSIT_PERCENTAGE).remaining_amount]

SplitCheckout ==
    \E total \in SplitTotals :
      /\ Len(orders) < MaxOrders
      /\ Serve(checkout_cart(DB, <<Line("X", 1)>>, total, "orange_money",
                             FALSE, FALSE),
               "checkout_cart", Len(orders) + 1, "none")

SplitUpdateAmounts ==
    \E o \in OrderIds, total \in SplitTotals :
      /\ orders' = [orders EXCEPT ![o] = update_amounts(@, total)]
      /\ result' = Answer("update_amounts", o, "none", "ok", FALSE, NoRequest)
      /\ UNCHANGED <<inventory, payments, sess, start, payment_webhooks>>

SplitPartialPayment ==
    \E o \in OrderIds :
      /\ result' = Answer("calculate_partial_payment", o, "none", "ok", FALSE,
                          [NoRequest EXCEPT !.amount =
                             calculate_partial_payment(orders[o].total_amount)
                                 .down_payment])
      /\ UNCHANGED <<inventory, orders, payments, sess, start, payment_webhooks>>

InitSplit ==
    /\ inventory = [p \in Products |->
                      [quantity |-> MaxStock, reserved_quantity |-> 0]]
    /\ orders = <<>>
    /\ payments = <<>>
    /\ result = NoResult
    /\ sess = [s \in Sessions |-> IdleSession]
    /\ payment_webhooks = <<>>
    /\ start = DB

NextSplit ==
    \/ SplitCheckout
    \/ SplitUpdateAmounts
    \/ SplitPartialPayment

SpecSplit == InitSplit /\ [][NextSplit]_vars

\* ------------------------------------------------------------ fulfilment
\* One order that has been checked out, and the status changes an
\* administrator makes while the order is prepared and shipped; an order
\* that went back to processing is shipped again.
MaxShipChanges == 4

ShipStatuses == {"partially_paid", "processing", "shipped"}

Stocks ==
    [Products -> {[quantity |-> n, reserved_quantity |-> 0] : n \in 0..MaxStock}]

ShipStarts ==
    {r.db : r \in {c \in {checkout_cart(Fresh(stock), cart, total,
                                        "orange_money", FALSE, FALSE) :
                             stock \in Stocks, cart \in Carts,
                             total \in TotalAmounts} : c.code = "ok"}}

InitShip ==
    /\ start \in ShipStarts
    /\ inventory = start.inventory
    /\ orders = start.orders
    /\ payments = start.payments
    /\ result = NoResult
    /\ sess = [s \in Sessions |-> IdleSession]
    /\ payment_webhooks = <<>>

ShipUpdateOrderStatus ==
    \E o \in OrderIds, s \in ShipStatuses :
      /\ StatusChanges < MaxShipChanges
      /\ Serve(update_order_status(DB, o, s), "update_order_status", o, s)

NextShip == ShipUpdateOrderStatus

SpecShip == InitShip /\ [][NextShip]_vars

\* ------------------------------------------------ the provider's intents
\* POST /payments/create step by step, for two requests at a time: the
\* processors of stripe and of mobile money send the request to the provider
\* and, when it has answered, open a session and store the payment row.
\* exc: storing the row raises (or the process stops before it).
BeginCreatePayment(s) ==
    \E o \in OrderIds, gateway \in Gateways, is_partial \in BOOLEAN,
       gw_ok \in BOOLEAN, exc \in BOOLEAN :
      LET r == create_payment(DB, o, gateway, is_partial, gw_ok)
          answered == r.sent /\ r.code = "ok"
          req == [NoRequest EXCEPT !.gateway = gateway, !.phone = TRUE]
      IN /\ sess[s].pc = "idle"
         /\ sess' = [sess EXCEPT ![s] =
                       [IdleSession EXCEPT
                          !.pc = IF answered THEN "called" ELSE "done",
                          !.op = "create_payment", !.order = o,
                          !.arg = IF answered THEN "intent" ELSE "none",
                          !.code = r.code, !.exc = exc,
                          !.loaded = DB, !.local = r.db]]
         /\ IF answered
            THEN UNCHANGED <<payments, result>>
            ELSE /\ payments' = r.db.payments
                 /\ result' = Answer("create_payment", o, "none", r.code,
                                     r.sent, req)
         /\ UNCHANGED <<inventory, orders, start, payment_webhooks>>

\* the row is stored with the provider's id and the request is answered
PersistPayment(s) ==
    LET row == sess[s].local.payments[Len(sess[s].local.payments)]
        req == [NoRequest EXCEPT !.gateway = row.gateway, !.phone = TRUE]
    IN /\ sess[s].pc = "called"
       /\ IF sess[s].exc
          THEN /\ sess' = [sess EXCEPT ![s].pc = "done",
                                       ![s].code = "GatewayError"]
               /\ UNCHANGED payments
          ELSE /\ sess' = [sess EXCEPT ![s].pc = "done"]
               /\ payments' = Append(payments, row)
       /\ result' = Answer("create_payment", sess[s].order, "none",
                           sess'[s].code, TRUE, req)
       /\ UNCHANGED <<inventory, orders, start, payment_webhooks>>

NextIntent ==
    \E s \in Sessions :
      \/ BeginCreatePayment(s)
      \/ PersistPayment(s)

SpecIntent == InitPay /\ [][NextIntent]_vars

\* ------------------------------------------------------ webhook deliveries
\* One payment that a provider knows, and the notifications about it.  The
\* routes /webhooks/stripe, /webhooks/orange-money and /webhooks/mtn-money
\* are the ones the providers are given (callback_url); they are registered
\* before /webhooks/{gateway}, which serves every other name.
MaxWebhooks == 2

WebhookStatuses == {"success", "failed"}

\* the PaymentWebhook row of a notification about payment pid
PaymentWebhook(gateway, pid, status) ==
    [gateway |-> gateway,
     payload |-> [payment |-> pid, status |-> status],
     processed |-> FALSE]

\* POST /payments/webhooks/{gateway}: the notification is stored
payment_webhook(webhooks, gateway, pid, status) ==
    Append(webhooks, PaymentWebhook(gateway, pid, status))

\* the background task: the processors of the three gateways do nothing,
\* the row is marked as processed
process_webhook(webhooks, k) == [webhooks EXCEPT ![k].processed = TRUE]

WebhookStarts ==
    {create_payment(db, 1, gateway, is_partial, TRUE).db :
       db \in PayStarts, gateway \in Gateways \ {"cash_on_delivery"},
       is_partial \in BOOLEAN}

InitWebhook ==
    /\ start \in WebhookStarts
    /\ inventory = start.inventory
    /\ orders = start.orders
    /\ payments = start.payments
    /\ result = NoResult
    /\ sess = [s \in Sessions |-> IdleSession]
    /\ payment_webhooks = <<>>

StorePaymentWebhook ==
    \E gateway \in Gateways \ {"stripe"}, pid \in PaymentIds,
       status \in WebhookStatuses :
      /\ Len(payment_webhooks) < MaxWebhooks
      /\ payment_webhooks' =
             payment_webhook(payment_webhooks, gateway, pid, status)
      /\ result' = Answer("payment_webhook", payments[pid].order_id, status,
                          "received", FALSE, ForPayment(pid))
      /\ UNCHANGED <<inventory, orders, payments, sess, start>>

ProcessWebhook ==
    \E k \in 1..Len(payment_webhooks) :
      /\ ~payment_webhooks[k].processed
      /\ payment_webhooks' = process_webhook(payment_webhooks, k)
      /\ result' = Answer("process_webhook", 0, "none", "ok", FALSE, NoRequest)
      /\ UNCHANGED <<inventory, orders, payments, sess, start>>

NextWebhook ==
    \/ WebhookDelivery
    \/ StorePaymentWebhook
    \/ ProcessWebhook

SpecWebhook == InitWebhook /\ [][NextWebhook]_vars

\* ------------------------------------------------------- notifications
\* The three operations that notify the user: the stripe webhook of a
\* payment, the order service's creation of an order and its status update
\* of an order that is being prepared.
NotifyStarts ==
    {create_payment(d, 1, "stripe", is_partial, TRUE).db :
       d \in UNION {{db, update_order_status(db, 1, "processing").db} :
                      db \in PayStarts},
       is_partial \in BOOLEAN}

InitNotify ==
    /\ start \in NotifyStarts
    /\ inventory = start.inventory
    /\ orders = start.orders
    /\ payments = start.payments
    /\ result = NoResult
    /\ sess = [s \in Sessions |-> IdleSession]
    /\ payment_webhooks = <<>>

NextNotify ==
    \/ WebhookDelivery
    \/ CreateOrderFromCart
    \/ ServiceUpdateOrderStatus

SpecNotify == InitNotify /\ [][NextNotify]_vars

\* ------------------------------------------------------ deposit payments
\* Orders of many totals, the partial payment that POST /payments/create
\* makes for each (30% of the total, by calculate_partial_payment), and its
\* confirmation.
DepositStarts ==
    {checkout_cart(
         Fresh([p \in Products |->
                  [quantity |-> MaxStock, reserved_quantity |-> 0]]),
         <<Line("X", 1)>>, total, "orange_money", FALSE, FALSE).db :
       total \in SplitTotals}

InitDeposit ==
    /\ start \in DepositStarts
    /\ inventory = start.inventory
    /\ orders = start.orders
    /\ payments = start.payments
    /\ result = NoResult
    /\ sess = [s \in Sessions |-> IdleSession]
    /\ payment_webhooks = <<>>

DepositCreatePayment ==
    \E o \in OrderIds, gateway \in MobileMoney, gw_ok \in BOOLEAN :
      /\ Len(payments) < MaxPayments
      /\ ServeRequest(create_payment(DB, o, gateway, TRUE, gw_ok),
                      "create_payment", o, "partial",
                      [NoRequest EXCEPT !.gateway = gateway, !.phone = TRUE])

NextDeposit ==
    \/ DepositCreatePayment
    \/ PayConfirmPayment

SpecDeposit == InitDeposit /\ [][NextDeposit]_vars

\* ------------------------------------------------------------------ claims
DoneCheckouts ==
    {s \in Sessions : sess[s].pc = "done" /\ sess[s].op = "checkout_cart"}

\* the status transitions of the design (section 4.1): the payment path, the
\* fulfilment chain, and cancelled / refunded from the states that allow them
DesignTransitions ==
    [s \in OrderStatuses |->
       CASE s = "pending" -> {"partially_paid", "paid_full", "cancelled"}
         [] s = "partially_paid" ->
                {"paid_full", "processing", "shipped", "cancelled"}
         [] s = "paid_full" -> {"completed", "processing", "shipped"}
         [] s = "processing" -> {"shipped", "cancelled"}
         [] s = "shipped" -> {"in_transit", "delivered"}
         [] s = "in_transit" -> {"delivered", "delivery_failed"}
         [] s = "delivered" -> {"completed", "returned", "refunded"}
         [] s = "completed" -> {"returned", "refunded"}
         [] s = "delivery_failed" -> {"in_transit", "returned", "refunded"}
         [] s = "returned" -> {"refunded"}
         [] OTHER -> {}]

\* C1: in every reachable state every inventory record satisfies
\* 0 <= reserved_quantity <= quantity.
C1_InventoryInvariant ==
    \A p \in Products :
      /\ 0 <= inventory[p].reserved_quantity
      /\ inventory[p].reserved_quantity <= inventory[p].quantity

\* C2: two checkouts of the same product whose quantities each fit the stock
\* that is available but together exceed it: in every interleaving exactly
\* one succeeds, the other is refused with InsufficientStock, and
\* reserved_quantity ends as the reservation of the one that succeeded.
C2_NoOversell ==
    \A s1 \in DoneCheckouts, s2 \in DoneCheckouts :
      LET p == sess[s1].cart[1].product_id
          q1 == sess[s1].cart[1].quantity
          q2 == sess[s2].cart[1].quantity
          available == available_quantity(start.inventory[p])
      IN (/\ s1 # s2
          /\ sess[s2].cart[1].product_id = p
          /\ ~sess[s1].exc /\ ~sess[s2].exc
          /\ "CheckoutFailed" \notin {sess[s1].code, sess[s2].code}
          /\ q1 <= available /\ q2 <= available /\ q1 + q2 > available)
         => \E ok \in {s1, s2} :
              /\ sess[ok].code = "ok"
              /\ \A s \in {s1, s2} \ {ok} : sess[s].code = "InsufficientStock"
              /\ inventory[p].reserved_quantity =
                     start.inventory[p].reserved_quantity
                     + sess[ok].cart[1].quantity
              /\ inventory[p].reserved_quantity <= inventory[p].quantity

Reserved(inv) == [p \in Products |-> inv[p].reserved_quantity]

\* C3: reservation is all or nothing: when the reservation of a line of an
\* order fails, every product's reserved_quantity is what it was before the
\* call, and a checkout that is refused leaves no order behind.
C3_AllOrNothing ==
    [][/\ (result'.op = "checkout_cart" /\ result'.code = "InsufficientStock")
           => (Reserved(inventory') = Reserved(inventory) /\ orders' = orders)
       /\ \A o \in OrderIds :
            (/\ orders[o].status = "pending"
             /\ orders'[o].status = "partially_paid"
             /\ ~reserve_inventory(inventory, orders[o].items).ok)
            => Reserved(inventory') = Reserved(inventory)]_vars

\* C4: a status change to a status that is not reachable from the order's
\* current status is refused with InvalidTransition and leaves the order,
\* its history and the inventory as they were.
C4_InvalidTransitionRefused ==
    [][\A o \in OrderIds :
         (/\ result'.op = "update_order_status"
          /\ result'.order = o
          /\ result' # result \/ orders' # orders
          /\ result'.arg # orders[o].status
          /\ result'.arg \notin DesignTransitions[orders[o].status])
         => (/\ result'.code = "InvalidTransition"
             /\ orders' = orders
             /\ inventory' = inventory)]_vars

\* C5: changing an order to the status it already has succeeds, writes no
\* history row and runs no inventory side effect.
C5_IdempotentStatusChange ==
    [][\A o \in OrderIds :
         (/\ result'.op = "update_order_status"
          /\ result'.order = o
          /\ result'.arg = orders[o].status)
         => (/\ result'.code = "ok"
             /\ orders'[o].status_history = orders[o].status_history
             /\ inventory' = inventory)]_vars

Dispatched == {"shipped", "in_transit", "delivered"}

\* C6: Cancel on an order that is cancelled, refunded, shipped, in transit or
\* delivered fails with NotCancellable and changes nothing, so no order
\* becomes cancelled after dispatch.
C6_NoCancelAfterDispatch ==
    [][\A o \in OrderIds :
         /\ (/\ result'.op = "cancel_order"
             /\ result'.order = o
             /\ orders[o].status \in Dispatched \cup {"cancelled", "refunded"})
            => (/\ result'.code = "NotCancellable"
                /\ orders' = orders
                /\ inventory' = inventory)
         /\ orders[o].status \in Dispatched
            => orders'[o].status # "cancelled"]_vars

\* C7: a Cancel that succeeds on an order with a line of q units of product X
\* lowers X's reserved_quantity by exactly q and makes the order cancelled.
C7_CancelReleasesExactly ==
    [][\A o \in OrderIds :
         (/\ result'.op = "cancel_order"
          /\ result'.order = o
          /\ result'.code = "ok"
          /\ orders'[o].status_history # orders[o].status_history)
         => /\ orders'[o].status = "cancelled"
            /\ \A k \in 1..Len(orders[o].items) :
                 LET p == orders[o].items[k].product_id
                     q == orders[o].items[k].quantity
                 IN inventory[p].reserved_quantity >= q
                    => inventory'[p].reserved_quantity =
                          inventory[p].reserved_quantity - q]_vars

\* C8: a payment success event for a payment of a cancelled order leaves the
\* order cancelled, whatever amount was paid.
C8_CancelledStaysCancelled ==
    [][\A o \in OrderIds :
         (/\ result'.op \in {"confirm_payment", "gateway_webhook"}
          /\ result'.order = o
          /\ orders[o].status = "cancelled")
         => orders'[o].status = "cancelled"]_vars

\* C9: when a Cancel and the confirmation of a payment of the same order
\* have both been answered with success, the order is cancelled and none of
\* its lines is still reserved.
C9_CancelWinsRace ==
    \A s1 \in Sessions, s2 \in Sessions :
      (/\ sess[s1].pc = "done" /\ sess[s1].op = "cancel_order"
       /\ sess[s1].code = "ok"
       /\ sess[s2].pc = "done" /\ sess[s2].op = "confirm_payment"
       /\ sess[s2].code = "ok"
       /\ sess[s2].order = sess[s1].order)
      => LET o == sess[s1].order IN
         /\ orders[o].status = "cancelled"
         /\ \A k \in 1..Len(orders[o].items) :
              inventory[orders[o].items[k].product_id].reserved_quantity = 0

\* C10: marking an order shipped from partially_paid or paid_full commits
\* its stock: for a line of q reserved units of a product with quantity Q,
\* the quantity becomes Q - q and reserved_quantity decreases by q.
C10_ShipCommitsInventory ==
    [][\A o \in OrderIds :
         (/\ result'.op = "update_order_status"
          /\ result'.order = o
          /\ result'.arg = "shipped"
          /\ orders'[o].status_history # orders[o].status_history
          /\ orders[o].status \in {"partially_paid", "paid_full"})
         => \A k \in 1..Len(orders[o].items) :
              LET p == orders[o].items[k].product_id
                  q == orders[o].items[k].quantity
              IN inventory[p].reserved_quantity >= q
                 => /\ inventory'[p].quantity = inventory[p].quantity - q
                    /\ inventory'[p].reserved_quantity =
                          inventory[p].reserved_quantity - q]_vars

CreateOps == {"create_payment", "create_payment_amount"}

\* C11: when a payment of an order that is pending or partially_paid becomes
\* success, by webhook or by confirmation, the order follows the sum of its
\* success payments: paid_full when the sum reaches the total,
\* partially_paid when it reaches the deposit but not the total.
C11_OrderFollowsPayments ==
    [][\A pid \in PaymentIds :
         LET o == payments[pid].order_id
             paid == PaidFrom(payments', o, 1)
         IN (/\ payments[pid].status # "success"
             /\ payments'[pid].status = "success"
             /\ orders[o].status \in {"pending", "partially_paid"})
            => /\ paid >= orders[o].total_amount
                  => orders'[o].status = "paid_full"
               /\ (/\ paid >= orders[o].deposit_amount
                   /\ paid < orders[o].total_amount)
                  => orders'[o].status = "partially_paid"]_vars

\* C12: a webhook whose payload is the one already stored on the payment it
\* names (the same notification delivered again) changes no payment, no
\* order status and no history.
C12_WebhookIdempotent ==
    [][(/\ result'.op = "gateway_webhook"
        /\ payments[result'.req.payment].gateway_response = result'.arg)
       => (payments' = payments /\ orders' = orders)]_vars

\* the moves of a payment's status in the design (section 4.4)
PaymentTransitions ==
    [s \in {"initiated", "processing", "pending", "success", "failed",
            "expired", "refunded"} |->
       CASE s = "initiated" ->
                {"processing", "pending", "success", "failed", "expired"}
         [] s \in {"processing", "pending"} ->
                {"processing", "pending", "success", "failed", "expired"}
         [] s = "success" -> {"refunded"}
         [] OTHER -> {}]

\* C13: a payment's status only moves along initiated -> processing/pending
\* -> success | failed | expired, and to refunded only from success.
C13_PaymentStatusMonotonic ==
    [][\A pid \in PaymentIds :
         payments'[pid].status # payments[pid].status
         => payments'[pid].status
               \in PaymentTransitions[payments[pid].status]]_vars

NotPayable == {"cancelled", "refunded", "completed"}

\* C14: creating a payment for an order that is cancelled, refunded or
\* completed is refused with OrderNotPayable on both creation endpoints,
\* stores no payment row and calls no provider.
C14_OrderNotPayable ==
    [][\A o \in OrderIds :
         (/\ result'.op \in CreateOps
          /\ result'.order = o
          /\ orders[o].status \in NotPayable)
         => (/\ result'.code = "OrderNotPayable"
             /\ payments' = payments
             /\ ~result'.sent)]_vars

\* C15: every payment that is created has an amount that is at most the
\* order's remaining balance (total minus success payments) at that moment.
C15_AmountWithinBalance ==
    [][(result'.op \in CreateOps /\ Len(payments') > Len(payments))
       => payments'[Len(payments')].amount
             <= get_remaining_balance(DB, result'.order)]_vars

Failed == {"failed", "expired"}

\* C16: when a payment becomes failed or expired the order's status stays,
\* the payment's retry_count grows by one, and a new payment for the order
\* is accepted.
C16_FailureCountsRetry ==
    [][\A pid \in PaymentIds :
         LET o == payments[pid].order_id IN
         (/\ payments[pid].status \notin Failed
          /\ payments'[pid].status \in Failed
          /\ orders[o].status \in {"pending", "partially_paid"})
         => /\ orders'[o].status = orders[o].status
            /\ payments'[pid].retry_count = payments[pid].retry_count + 1
            /\ create_payment(DB', o, "cash_on_delivery", TRUE, TRUE).code
                   = "ok"]_vars

\* C18: a mobile-money payment requested without a phone number is refused
\* with MissingPhoneNumber (or with an earlier validation error), stores no
\* payment row and sends nothing to the provider.
C18_MissingPhoneNumber ==
    [][(/\ result'.op \in CreateOps
        /\ result'.req.gateway \in MobileMoney
        /\ ~result'.req.phone)
       => (/\ result'.code \in {"MissingPhoneNumber", "OrderNotPayable",
                                  "AmountExceedsBalance"}
           /\ payments' = payments
           /\ ~result'.sent)]_vars

\* C19: a cash-on-delivery payment is pending when it has been created, no
\* provider is called for it, and no request of the core changes the status
\* of a pending cash-on-delivery payment.
C19_CashOnDeliveryPending ==
    [][/\ (/\ result'.op \in CreateOps
            /\ result'.req.gateway = "cash_on_delivery"
            /\ Len(payments') > Len(payments))
           => (/\ payments'[Len(payments')].status = "pending"
               /\ ~result'.sent)
       /\ \A pid \in PaymentIds :
            (/\ payments[pid].gateway = "cash_on_delivery"
             /\ payments[pid].status = "pending")
            => payments'[pid].status = "pending"]_vars

RECURSIVE FailedFrom(_, _, _)
FailedFrom(ps, o, k) ==
    IF k > Len(ps) THEN 0
    ELSE (IF ps[k].order_id = o /\ ps[k].status \in Failed THEN 1 ELSE 0)
         + FailedFrom(ps, o, k + 1)

\* C17: the payment of an order is retried at most max_retries times: when
\* the first payment and max_retries retries of it have failed, a further
\* payment request is refused with RetryLimitExceeded and stores nothing.
C17_RetryLimit ==
    [][\A o \in OrderIds :
         (/\ result'.op \in CreateOps
          /\ result'.order = o
          /\ FailedFrom(payments, o, 1) > max_retries)
         => (/\ result'.code = "RetryLimitExceeded"
             /\ payments' = payments)]_vars

\* C20: the deposit split is exact: the down payment and the remaining
\* balance that calculate_partial_payment returns for an order's total add
\* up to the total, the deposit_amount and remaining_amount stored on every
\* order add up to its total_amount, and each deposit lies between 0 and
\* the total.
C20_SplitExact ==
    \A o \in OrderIds :
      LET total == orders[o].total_amount
          c == calculate_partial_payment(total)
      IN /\ c.down_payment + c.remaining_balance = total
         /\ 0 <= c.down_payment /\ c.down_payment <= total
         /\ orders[o].deposit_amount + orders[o].remaining_amount = total
         /\ 0 <= orders[o].deposit_amount
         /\ orders[o].deposit_amount <= total

\* the rounding unit of the down payment: 100 francs, in hundredths
RoundingUnit == 10000

\* C21: the down payment that calculate_partial_payment returns is the
\* multiple of 100 francs that is nearest to 30% of the order's total.
C21_DepositNearestUnit ==
    result.op = "calculate_partial_payment"
    => LET total == orders[result.order].total_amount
           deposit == result.req.amount
           distance == IF 100 * deposit >= 30 * total
                       THEN 100 * deposit - 30 * total
                       ELSE 30 * total - 100 * deposit
       IN /\ deposit % RoundingUnit = 0
          /\ 2 * distance <= 100 * RoundingUnit

\* C22: no two orders share an order number, also when two checkouts have
\* read the same daily count.
C22_OrderNumbersUnique ==
    \A i \in OrderIds, j \in OrderIds :
      i # j => orders[i].order_number # orders[j].order_number

\* two checkouts that made the same number from the same count; one has
\* stored its order, the INSERT of the other was refused
C22_Witness ==
    \E s1 \in Sessions, s2 \in Sessions :
      /\ s1 # s2
      /\ sess[s1].op = "checkout_cart" /\ sess[s2].op = "checkout_cart"
      /\ sess[s1].pc = "done" /\ sess[s1].code = "ok"
      /\ sess[s2].pc = "done" /\ sess[s2].code = "CheckoutFailed"
      /\ sess[s2].order = 0
      /\ Len(sess[s1].loaded.orders) = Len(sess[s2].loaded.orders)
      /\ orders[sess[s1].order].order_number
            = sess[s2].local.orders[Len(sess[s2].local.orders)].order_number

\* C23: a status change and its inventory side effect are one unit: when
\* the stock reduction of a shipment fails for a line of the order, the
\* order's status, its history and every inventory record stay as they
\* were before the call.
C23_TransitionAtomic ==
    [][\A o \in OrderIds :
         (/\ result'.op = "update_order_status"
          /\ result'.order = o
          /\ result'.arg = "shipped"
          /\ orders[o].status \in {"partially_paid", "processing"}
          /\ ~fulfill_inventory(inventory, orders[o].items).ok)
         => (orders' = orders /\ inventory' = inventory)]_vars

\* C24: the move of an order from pending to partially_paid, made when its
\* deposit payment succeeds, has no inventory side effect: the quantity and
\* the reserved_quantity of every product stay as they were.
C24_DepositKeepsInventory ==
    [][\A o \in OrderIds :
         (/\ result'.op \in {"confirm_payment", "gateway_webhook"}
          /\ orders[o].status = "pending"
          /\ orders'[o].status = "partially_paid")
         => inventory' = inventory]_vars

\* C25: the commit of the q units of an order line when the order ships
\* lowers the product's quantity and reserved_quantity by q each; when q is
\* more than the reserved_quantity it fails with InvalidCommit and changes
\* neither of them.
C25_CommitChecksReservation ==
    [][\A o \in OrderIds :
         (/\ result'.op = "update_order_status"
          /\ result'.order = o
          /\ result'.arg = "shipped"
          /\ orders[o].status \in {"partially_paid", "processing"})
         => \A k \in 1..Len(orders[o].items) :
              LET p == orders[o].items[k].product_id
                  q == orders[o].items[k].quantity
              IN IF q > inventory[p].reserved_quantity
                 THEN /\ result'.code = "InvalidCommit"
                      /\ inventory'[p] = inventory[p]
                 ELSE /\ inventory'[p].quantity = inventory[p].quantity - q
                      /\ inventory'[p].reserved_quantity =
                            inventory[p].reserved_quantity - q]_vars

\* the requests whose intent the provider holds
IntentsHeld ==
    {s \in Sessions : sess[s].op = "create_payment" /\ sess[s].arg = "intent"}

\* the payment rows that carry a provider's id
RowsWithIntent == {pid \in PaymentIds : payments[pid].gateway_payment_id}

\* C26: the payment row is stored before the provider is called: in no
\* state does the provider hold an intent or a charge for which no payment
\* row exists.
C26_PersistBeforeCall ==
    Cardinality(IntentsHeld) <= Cardinality(RowsWithIntent)

\* C27: every delivery of a provider notification, on every webhook route,
\* stores a PaymentWebhook row that holds its payload, so that no payment
\* changes its status by a webhook of which no row is stored.
C27_WebhookStoredFirst ==
    [][result'.op \in {"gateway_webhook", "payment_webhook"}
       => /\ Len(payment_webhooks') = Len(payment_webhooks) + 1
          /\ payment_webhooks'[Len(payment_webhooks')].payload =
                [payment |-> result'.req.payment, status |-> result'.arg]]_vars

\* C28: an operation does not depend on the notification it triggers: when
\* the notification fails, a payment that the provider reports as paid is
\* recorded as success, an order creation that was committed answers
\* success, and a status update that was committed answers success.
C28_NotificationBestEffort ==
    [][result'.req.notify \in {"failed", "raised"}
       => /\ (result'.op = "gateway_webhook" /\ result'.arg = "success")
             => payments'[result'.req.payment].status = "success"
          /\ (result'.op = "create_order_from_cart"
              /\ Len(orders') > Len(orders))
             => result'.code = "ok"
          /\ (result'.op = "service_update_order_status"
              /\ orders' # orders)
             => result'.code = "ok"]_vars

\* C29: no order is overpaid: the amounts of an order's success payments
\* add up to at most its total_amount, also when several payments were
\* created while the balance was open and each of them succeeds.
C29_NoOverpayment ==
    \A o \in OrderIds : PaidFrom(payments, o, 1) <= orders[o].total_amount

\* C30: the amount of a partial payment is at least the deposit_amount that
\* the checkout stored on the order, so that the success of a partial
\* payment of a pending order makes the order partially_paid.
C30_PartialCoversDeposit ==
    [][\A o \in OrderIds :
         /\ (/\ result'.op = "create_payment"
             /\ result'.arg = "partial"
             /\ result'.order = o
             /\ Len(payments') > Len(payments))
            => payments'[Len(payments')].amount >= orders[o].deposit_amount
         /\ (/\ result'.op = "confirm_payment"
             /\ result'.order = o
             /\ result'.code = "ok"
             /\ orders[o].status = "pending")
            => orders'[o].status = "partially_paid"]_vars

====
